---- MODULE Spec2Model ----
(***************************************************************************)
(* The "poll a source, drop what was announced, announce the rest, record  *)
(* it" pipeline of the JunctionNow bots:                                    *)
(*   crime    CrimeWatchBot        src/crime_watch/main.py                  *)
(*   recall   RecallBot            src/recall_rss_bot/main.py               *)
(*   gjnews   GJNewsBot            src/county_news/main.py                  *)
(*   local    LocalNewsBot         src/local_news_source_feed/main.py       *)
(*   camera   COTripBot            src/CDOT/main.py                         *)
(*   coroner  FacebookStealthBot   src/coroner_watch/main_selenium_stealth  *)
(*   article  check_for_articles   src/crime_watch_article_maker/main.py    *)
(*                                                                          *)
(* An identity (link, image URL, post id) is an integer.  0 stands for a    *)
(* listing entry that yields no candidate (no title or href, empty link,    *)
(* navigation link, no src, no image_url).  A negative integer stands for   *)
(* an image URL that contains "cocam.carsprogram.org".                      *)
(***************************************************************************)
EXTENDS Integers, Sequences, FiniteSets, TLC

\* ------------------------------------------------------------------ bounds
MaxLen == 3         \* most entries the sources serve in one behaviour
MaxWebhooks == 2    \* most webhooks configured for one item
MaxFaults == 1      \* most environment faults in one behaviour
MaxRuns == 2        \* most runs in one behaviour
MaxOps == 3         \* most store operations in one behaviour of the store alone
MaxCalls == 2       \* most calls of the relevance filter in one behaviour
MaxClicks == 3      \* clicks on the buttons of one article

\* ------------------------------------------------------- program constants
MAX_ITEMS == 15
MAX_RECALLS_PER_RUN == 10
MAX_ARTICLES_PER_SOURCE_GJ == 5
MAX_ARTICLES_PER_SOURCE_LOCAL == 10
MAX_POSTED_IMAGES == 100
MAX_SEEN_ITEMS == 100
MAX_CONTENT_IMAGES == 10
DEMO_CAMERAS == 17

Bots == {"crime", "recall", "gjnews", "local", "camera", "coroner", "article"}

\* ----------------------------------------------------------------- helpers
Min(a, b) == IF a < b THEN a ELSE b

Range(s) == {s[i] : i \in 1..Len(s)}

Take(s, n) == SubSeq(s, 1, Min(n, Len(s)))

\* Faulty variant: a cut that keeps the first n entries and drops the newest.
LastNOldest(s, n) == SubSeq(s, 1, IF n < Len(s) THEN n ELSE Len(s))

LastN(s, n) == IF Len(s) > n THEN SubSeq(s, Len(s) - n + 1, Len(s)) ELSE s

Reverse(s) == [i \in 1..Len(s) |-> s[Len(s) + 1 - i]]

RECURSIVE Concat(_)
Concat(ss) == IF ss = <<>> THEN <<>> ELSE Head(ss) \o Concat(Tail(ss))

RECURSIVE SeqsUpTo(_, _)
SeqsUpTo(S, n) ==
    IF n = 0 THEN {<<>>}
    ELSE LET shorter == SeqsUpTo(S, n - 1)
         IN shorter \cup {Append(s, x) : s \in {t \in shorter : Len(t) = n - 1}, x \in S}

\* The set's members in one fixed order (an order the code never reads back).
SetToSeq(S) ==
    IF S = {} THEN <<>>
    ELSE LET lo == CHOOSE x \in S : \A y \in S : x <= y
             hi == CHOOSE x \in S : \A y \in S : y <= x
         IN SelectSeq([i \in 1..(hi - lo + 1) |-> lo + i - 1], LAMBDA x : x \in S)

Descending(n) == [i \in 1..n |-> n + 1 - i]


\* ---------------------------------------------------------- configuration
NumSources(b) == IF b = "gjnews" THEN 2 ELSE IF b = "local" THEN 3 ELSE 1

\* WEBHOOK_URL of crime/coroner and the channel of the article maker are one
\* destination; the other bots post every item to a list of webhooks.
MultiWebhook(b) == b \in {"recall", "gjnews", "local", "camera"}

\* The link of entry i of source s: the sources serve disjoint links.
Link(s, i) == (s - 1) * (MaxLen + 1) + i

\* "cocam.carsprogram.org" in image_url
\* Faulty variant: no image URL taken as a cocam.carsprogram.org one.
IsCocamNever(image_url) == FALSE

IsCocam(image_url) == image_url < 0

\* ------------------------------------------------------------ fetch steps
\* The entry loop of GJNewsBot._fetch_gj_city_news, _fetch_mesa_county_news and
\* LocalNewsBot._fetch_rss_news: an entry without candidate is skipped, the
\* first already seen link ends the loop.
RECURSIVE NewsLoop(_, _, _, _)
NewsLoop(entries, i, seen_links, articles) ==
    IF i > Len(entries) THEN articles
    ELSE IF entries[i] = 0 THEN NewsLoop(entries, i + 1, seen_links, articles)
    ELSE IF entries[i] \in seen_links THEN articles
    ELSE NewsLoop(entries, i + 1, seen_links, Append(articles, entries[i]))

FetchNews(entries, seen_links, max_articles) ==
    NewsLoop(Take(entries, max_articles), 1, seen_links, <<>>)

\* Faulty variant: the scrape without its "if item_id in self.seen_items: continue".
ScrapeNewsFeedNoSeenCheck(entries, seen_items) ==
    SelectSeq(Take(entries, MAX_ITEMS), LAMBDA e : e # 0)

\* Faulty variant: a scrape that stops at the first card already seen.
ScrapeNewsFeedUntilSeen(entries, seen_items) ==
    NewsLoop(Take(entries, MAX_ITEMS), 1, seen_items, <<>>)

\* CrimeWatchBot._scrape_news_feed and the article maker's scrape_news_feed:
\* the first MAX_ITEMS cards, without the unusable and the already seen.
ScrapeNewsFeed(entries, seen_items) ==
    SelectSeq(Take(entries, MAX_ITEMS), LAMBDA e : e # 0 /\ e \notin seen_items)

\* list(dict.fromkeys(all_links)): the first occurrence of each link, in order.
RECURSIVE UniqueLinks(_)
UniqueLinks(all_links) ==
    IF all_links = <<>> THEN <<>>
    ELSE LET rest == UniqueLinks(Take(all_links, Len(all_links) - 1))
             last == all_links[Len(all_links)]
         IN IF last \in Range(rest) THEN rest ELSE Append(rest, last)

\* The link loop of RecallBot._fetch_fda_recalls; unreachable is the set of
\* recall pages whose GET fails in this run.
RECURSIVE RecallLoop(_, _, _, _, _)
RecallLoop(unique_links, i, seen_links, unreachable, recalls) ==
    IF i > Len(unique_links) THEN recalls
    ELSE LET link == unique_links[i]
         IN IF link = 0 \/ link \in seen_links \/ link \in unreachable
            THEN RecallLoop(unique_links, i + 1, seen_links, unreachable, recalls)
            ELSE IF Len(recalls) + 1 >= MAX_RECALLS_PER_RUN
                 THEN Append(recalls, link)
                 ELSE RecallLoop(unique_links, i + 1, seen_links, unreachable,
                                 Append(recalls, link))

\* Faulty variant: the cap applied to the listing before the seen filter.
FetchFdaRecallsFirstLinks(all_links, seen_links, unreachable) ==
    SelectSeq(Take(UniqueLinks(all_links), MAX_RECALLS_PER_RUN),
              LAMBDA e : e # 0 /\ e \notin seen_links /\ e \notin unreachable)

FetchFdaRecalls(all_links, seen_links, unreachable) ==
    RecallLoop(UniqueLinks(all_links), 1, seen_links, unreachable, <<>>)

\* FacebookStealthBot._scrape_posts: the first 10 content images whose post id
\* is not in the seen set.
ScrapePosts(content_images, seen_items) ==
    SelectSeq(Take(content_images, MAX_CONTENT_IMAGES),
              LAMBDA e : e # 0 /\ e \notin seen_items)

\* COTripBot.filter_selected_cameras: the cameras that match SELECTED_CAMERAS,
\* or all of them when none matches.
FilterSelectedCameras(cameras) ==
    LET selected == SelectSeq(cameras, LAMBDA c : c.sel)
    IN IF selected = <<>> THEN cameras ELSE selected

\* COTripBot.get_demo_camera_data: a fixed list of DEMO_CAMERAS cameras of
\* cocam.carsprogram.org, none of which matches SELECTED_CAMERAS.  They differ
\* in name and URL only, and the list is kept as long as a camera listing may
\* be here.
GetDemoCameraData ==
    [i \in 1..Min(DEMO_CAMERAS, MaxLen - 1) |-> [sel |-> FALSE, image_url |-> -i]]

\* COTripBot.fetch_camera_data: the first source that answers with cameras;
\* when every source fails or answers with none, the demo cameras.
FetchCameraData(cameras) == IF cameras = <<>> THEN GetDemoCameraData ELSE cameras

\* COTripBot.is_image_already_posted
IsImageAlreadyPosted(posted, image_url) ==
    IF IsCocam(image_url) THEN FALSE ELSE image_url \in Range(posted)

\* ------------------------------------------------------- delivery order
\* Faulty variant: run() without its reverse().
BackfillOrderKept(items) == items

\* items.reverse() / recalls.reverse() / all_articles.reverse() in run().
BackfillOrder(items) == Reverse(items)

\* Faulty variant: each source's list reversed on its own, the sources kept
\* in fetch order.
DeliveryQueueSourceBySource(b, items) ==
    IF b \in {"gjnews", "local"}
    THEN Concat([s \in 1..NumSources(b) |->
                    Reverse(SelectSeq(items,
                                      LAMBDA e : (e - 1) \div (MaxLen + 1) + 1 = s))])
    ELSE IF b \in {"crime", "recall"} THEN Reverse(items)
    ELSE items

\* What run() hands to the delivery loop, from what the fetch step yielded.
DeliveryQueue(b, items) ==
    IF b \in {"crime", "recall", "gjnews", "local"} THEN BackfillOrder(items)
    ELSE items

\* ------------------------------------------------------ confirmation
\* _post_to_discord of RecallBot, GJNewsBot and LocalNewsBot: success starts
\* True and any failing webhook clears it.
AllSucceeded(res) == \A w \in 1..Len(res) : res[w]

\* check_and_post_cameras: posted_successfully starts False and any
\* succeeding webhook sets it.
AnySucceeded(res) == \E w \in 1..Len(res) : res[w]

\* Faulty variant: the camera bot asking for every webhook, like the other bots.
ConfirmedWhenAll(b, res) == AllSucceeded(res)

\* Faulty variant: an item taken as posted whatever the webhooks answered.
ConfirmedAlways(b, res) == TRUE

Confirmed(b, res) ==
    IF b = "camera" THEN AnySucceeded(res) ELSE AllSucceeded(res)


\* ------------------------------------------------------ identity store
\* The source an article came from, read back from its link.
SourceOf(link) == (link - 1) \div (MaxLen + 1) + 1

\* key = f"{source}|{link}" of _save_seen_link.
Key(source, link) == <<source, link>>

\* What the bot writes for an identity: the item id (crime, article), or the
\* source and the link (recall, gjnews, local).
StoreKey(b, id) ==
    IF b \in {"gjnews", "local"} THEN Key(SourceOf(id), id)
    ELSE IF b = "recall" THEN Key(1, id)
    ELSE id

\* Faulty variant: a load that does not find the stored list and starts empty.
LoadSeenItemsEmpty(stored) == {}

\* _load_seen_items: set(data['items']).
LoadSeenItems(stored) == Range(stored)

\* _load_seen_links: {key.split('|', 1)[1] for key in data['keys']}.
LoadSeenLinks(stored) == {stored[i][2] : i \in 1..Len(stored)}

LoadSeen(b, stored) ==
    IF b \in {"recall", "gjnews", "local"} THEN LoadSeenLinks(stored)
    ELSE LoadSeenItems(stored)

\* Faulty variant: a save that keeps the identity in memory and writes no file.
SaveSeenInMemory(stored, seen, key, id, io) ==
    [file |-> stored, seen |-> seen \cup {id}]

\* _save_seen_item of CrimeWatchBot and the article maker, _save_seen_link of
\* RecallBot, GJNewsBot and LocalNewsBot.  io is what the file system does:
\* "ok", "rfail" (the read raises, so the list starts empty) or "wfail" (the
\* open for writing raises; the except clause swallows it).
SaveSeen(stored, seen, key, id, io) ==
    LET items == IF io = "rfail" THEN <<>> ELSE stored
    IN IF key \in Range(items) \/ io = "wfail"
       THEN [file |-> stored, seen |-> seen]
       ELSE [file |-> Append(items, key), seen |-> seen \cup {id}]

\* Faulty variant: mark_image_as_posted without its early return.
MarkImageAsPostedAlways(stored, posted, image_url, io) ==
    LET kept == LastN(Append(posted, image_url), MAX_POSTED_IMAGES)
    IN [file |-> IF io = "ok" THEN kept ELSE stored, posted |-> kept]

\* COTripBot.mark_image_as_posted followed by save_posted_images.
MarkImageAsPosted(stored, posted, image_url, io) ==
    IF IsCocam(image_url) THEN [file |-> stored, posted |-> posted]
    ELSE LET kept == LastN(Append(posted, image_url), MAX_POSTED_IMAGES)
         IN [file |-> IF io = "ok" THEN kept ELSE stored, posted |-> kept]

\* What items[-100:] can drop from list(self.seen_items): the order of a set of
\* strings is not fixed, so any members beyond the first 100 kept.
RECURSIVE KSubsets(_, _)
KSubsets(S, k) ==
    IF k <= 0 THEN {{}}
    ELSE UNION {{d \cup {x} : d \in KSubsets({y \in S : y > x}, k - 1)} : x \in S}

Droppable(seen) == KSubsets(seen, Cardinality(seen) - MAX_SEEN_ITEMS)

\* FacebookStealthBot._save_seen_item; drop is the choice out of Droppable.
\* A failing write raises after the set was changed.
CoronerSaveSeenItem(stored, seen, item_id, drop, io) ==
    LET kept == (seen \cup {item_id}) \ drop
    IN [file |-> IF io = "ok" THEN SetToSeq(kept) ELSE stored, seen |-> kept]

\* The file-system outcomes that differ for a bot's save.
StoreOutcomes(b) ==
    IF b \in {"camera", "coroner"} THEN {"ok", "wfail"} ELSE {"ok", "wfail", "rfail"}


\* ------------------------------------------------------------------ state
VARIABLES
    bot,            \* the bot this behaviour runs
    nhooks,         \* webhooks configured for an item (DISCORD_WEBHOOKS, WEBHOOKS[source])
    listing,        \* what each source serves: listing[s] is source s, newest first
    file,           \* seen_items.json / posted_images.json: the stored list
    seen,           \* self.seen_items / self.seen_links
    posted_images,  \* self.posted_images["posted"] of the camera bot
    pc,             \* "off" no process, "idle" constructed, "deliver" in the item loop
    yielded,        \* what the fetch step of this run returned
    missed,         \* the fetches of this run that failed
    queue,          \* the list the item loop of this run walks
    idx,            \* position of the item loop in queue
    sent,           \* the notifier invocations of this run, in order
    posted,         \* posted / posted_count of this run
    runs,           \* the runs that ended, in order
    faults,         \* environment faults so far
    disk,           \* what is on disk under the store's name: "valid" (the JSON
                    \* object with its list), "missing", "corrupt" (not JSON) or
                    \* "nokey" (a JSON object without the list); file is the list
    ops,            \* the store operations so far, in order
    execs,          \* the executions of a bot that run at the same time
    dry_run,        \* whether DRY_RUN is "1" in the environment of the process
    view            \* one ArticleView and the button handlers called on it

vars == <<bot, nhooks, listing, file, seen, posted_images, pc, yielded, missed,
          queue, idx, sent, posted, runs, faults, disk, ops, execs, dry_run, view>>

Continuous(b) == b \in {"camera", "coroner", "article"}

\* ------------------------------------------------------------------ inputs
\* Identities are opaque, so a listing names them 1, 2, ... in the order of
\* their first appearance; 0 and the negative ones keep their meaning.
FirstAppearance(ids) ==
    \A i \in 1..Len(ids) :
        ids[i] > 0 =>
            \/ \E j \in 1..(i - 1) : ids[j] = ids[i]
            \/ ids[i] = 1 + Cardinality({ids[j] : j \in 1..(i - 1)} \ (-1..0))

CameraUrls == -1..(MaxLen - 1)

Cameras == [sel : BOOLEAN, image_url : CameraUrls]

\* One listing that is longer than the cap of the bot's fetch step.
LongListings(b) ==
    IF b = "crime" THEN {<<[i \in 1..(MAX_ITEMS + 1) |-> i]>>}
    ELSE IF b = "recall" THEN {<<[i \in 1..(MAX_RECALLS_PER_RUN + 1) |-> i]>>}
    ELSE {}

RECURSIVE Total(_)
Total(n) == IF n = <<>> THEN 0 ELSE Head(n) + Total(Tail(n))

Listings(b) ==
    IF b \in {"gjnews", "local"}
    THEN {[s \in 1..NumSources(b) |-> [i \in 1..n[s] |-> Link(s, n[s] + 1 - i)]] :
              n \in {m \in [1..NumSources(b) -> 0..MaxLen] : Total(m) <= MaxLen}}
    ELSE IF b = "camera"
    THEN {<<l>> : l \in {c \in SeqsUpTo(Cameras, MaxLen - 1) :
                            FirstAppearance([i \in 1..Len(c) |-> c[i].image_url])}}
    ELSE {<<l>> : l \in {e \in SeqsUpTo(0..MaxLen, MaxLen) : FirstAppearance(e)}}
         \cup LongListings(b)

Init ==
    /\ bot \in Bots
    /\ nhooks \in IF MultiWebhook(bot) THEN 1..MaxWebhooks ELSE {1}
    /\ listing \in Listings(bot)
    /\ file = <<>>
    /\ seen = {}
    /\ posted_images = <<>>
    /\ pc = "off"
    /\ yielded = <<>>
    /\ missed = 0
    /\ queue = <<>>
    /\ idx = 1
    /\ sent = <<>>
    /\ posted = 0
    /\ runs = <<>>
    /\ faults = 0
    /\ disk = "valid"
    /\ ops = <<>>
    /\ execs = <<>>
    /\ dry_run = FALSE
    /\ view = <<>>

\* ------------------------------------------------------------- operations
\* __init__: the store is loaded into memory.
Construct ==
    /\ pc = "off"
    /\ Len(runs) < MaxRuns
    /\ pc' = "idle"
    /\ IF bot = "camera"
       THEN posted_images' = file /\ seen' = {}
       ELSE seen' = LoadSeen(bot, file) /\ posted_images' = <<>>
    /\ UNCHANGED <<dry_run, view, execs, bot, nhooks, listing, disk, ops, file,
                   yielded, missed, queue, idx, sent, posted, runs, faults>>

\* Faulty variant: a scrape that parses a page although its GET failed.
FetchedDespiteFailure(b, down, unreachable) ==
    IF b \in {"crime", "article"} THEN ScrapeNewsFeed(listing[1], seen) ELSE <<>>

\* Faulty variant: a run whose fetches are all lost when one of them fails.
FetchedNoneWhenOneFails(b, down, unreachable) ==
    IF down # {} THEN <<>>
    ELSE CASE b \in {"crime", "article"} -> ScrapeNewsFeed(listing[1], seen)
           [] b = "recall" -> FetchFdaRecalls(listing[1], seen, unreachable)
           [] b = "gjnews" ->
                FetchNews(listing[1], seen, MAX_ARTICLES_PER_SOURCE_GJ)
                \o FetchNews(listing[2], seen, MAX_ARTICLES_PER_SOURCE_GJ)
           [] b = "local" ->
                FetchNews(listing[1], seen, MAX_ARTICLES_PER_SOURCE_LOCAL)
                \o FetchNews(listing[2], seen, MAX_ARTICLES_PER_SOURCE_LOCAL)
                \o FetchNews(listing[3], seen, MAX_ARTICLES_PER_SOURCE_LOCAL)
           [] b = "coroner" -> ScrapePosts(listing[1], seen)
           [] b = "camera" -> FilterSelectedCameras(FetchCameraData(listing[1]))

\* The fetch step of run(): down is the set of sources whose fetch fails
\* (the GET raises or answers another status than 200, and the function
\* returns []), unreachable the recall pages whose GET fails.
Fetched(b, down, unreachable) ==
    LET Src(s) == IF s \in down THEN <<>> ELSE listing[s]
    IN CASE b \in {"crime", "article"} -> ScrapeNewsFeed(Src(1), seen)
         [] b = "recall" -> FetchFdaRecalls(Src(1), seen, unreachable)
         [] b = "gjnews" ->
              FetchNews(Src(1), seen, MAX_ARTICLES_PER_SOURCE_GJ)
              \o FetchNews(Src(2), seen, MAX_ARTICLES_PER_SOURCE_GJ)
         [] b = "local" ->
              FetchNews(Src(1), seen, MAX_ARTICLES_PER_SOURCE_LOCAL)
              \o FetchNews(Src(2), seen, MAX_ARTICLES_PER_SOURCE_LOCAL)
              \o FetchNews(Src(3), seen, MAX_ARTICLES_PER_SOURCE_LOCAL)
         [] b = "coroner" -> ScrapePosts(Src(1), seen)
         [] b = "camera" -> FilterSelectedCameras(FetchCameraData(Src(1)))

\* What is known of a run when it ends: what the fetch step yielded, the
\* notifier invocations, the "Posted {posted}/{total}" line, and how it ended
\* ("done", "raised" or "abandoned"); missed counts the fetches that failed,
\* dry is whether the process ran with DRY_RUN set.
RunRecord(new, lost, invocations, count, total, how) ==
    [new |-> new, missed |-> lost, sent |-> invocations, posted |-> count,
     total |-> total, end |-> how, dry |-> dry_run]

\* Where the process is after run() returned: main() of the one-shot bots
\* exits, the continuous bots wait for the next tick.
AfterRun(b) == IF Continuous(b) THEN "idle" ELSE "off"

\* run() up to the item loop; a run that finds nothing returns at once.
BeginRun ==
    /\ pc = "idle"
    /\ Len(runs) < MaxRuns
    /\ \E down \in SUBSET (1..NumSources(bot)) :
       \E unreachable \in SUBSET (IF bot = "recall" /\ down = {}
                                  THEN Range(listing[1]) \ {0} ELSE {}) :
          LET cost == Cardinality(down) + Cardinality(unreachable)
              items == Fetched(bot, down, unreachable)
              q == DeliveryQueue(bot, items)
          IN /\ faults + cost <= MaxFaults
             /\ faults' = faults + cost
             /\ sent' = <<>>
             /\ posted' = 0
             /\ idx' = 1
             /\ IF q = <<>>
                THEN /\ yielded' = <<>>
                     /\ missed' = 0
                     /\ queue' = <<>>
                     /\ runs' = Append(runs, RunRecord(items, cost, <<>>, 0, 0, "done"))
                     /\ pc' = AfterRun(bot)
                     /\ IF Continuous(bot)
                        THEN UNCHANGED <<seen, posted_images>>
                        ELSE seen' = {} /\ posted_images' = <<>>
                ELSE /\ yielded' = items
                     /\ missed' = cost
                     /\ queue' = q
                     /\ runs' = runs
                     /\ pc' = "deliver"
                     /\ UNCHANGED <<seen, posted_images>>
    /\ UNCHANGED <<dry_run, view, execs, bot, nhooks, listing, disk, ops, file>>


\* The outcomes of posting one item to its webhooks, and of the save that
\* follows a confirmed one, within what is left of the fault budget.
Failures(res) == Cardinality({w \in 1..Len(res) : ~res[w]})

PostOutcomes == [1..nhooks -> BOOLEAN]

\* One notifier invocation: the item, what each webhook answered, whether the
\* bot took the item as posted, and what the save met ("none": no save).
Invocation(id, res, rec, io) == [id |-> id, res |-> res, rec |-> rec, io |-> io]

\* Faulty variant: a post and a save without their try, whose failures raise.
EscapesOnFailure(b, res, io) == Failures(res) > 0 \/ io = "wfail"

\* Whether a failure inside _post_to_discord or inside the save leaves the
\* call as an exception: both wrap all they do in try/except (the post
\* returns False, the save passes), so it never does.
Escapes(b, res, io) == FALSE

\* Faulty variant: an item counted only when its identity was written.
CountPostedWhenWritten(count, io) == IF io = "wfail" THEN count ELSE count + 1

\* posted += 1 after the save returned, whatever the save met.
CountPosted(count, io) == count + 1

\* Faulty variant: a post that does not look at DRY_RUN.
DryRunPostIgnored(b, dry) == FALSE

\* RecallBot._post_to_discord with DRY_RUN set to "1": the post prints the
\* title and returns False before any webhook is called.
DryRunPost(b, dry) == b = "recall" /\ dry

\* What the item loop takes as a posted item.
Accepted(b, dry, res) == ~DryRunPost(b, dry) /\ Confirmed(b, res)

\* Faulty variant: a loop that stays on an item until its post succeeded.
NextItemRetry(i, ok) == IF ok THEN i + 1 ELSE i

\* The item loops are for loops over the list: after the body, whatever the
\* post returned, the loop is at the next item.
NextItem(i, ok) == i + 1

\* One pass of the item loop of CrimeWatchBot.run, RecallBot.run,
\* GJNewsBot.run, LocalNewsBot.run and check_for_articles: post, and on
\* success save the identity and count the item.  An exception out of the
\* loop body would reach the except clause of run(), which returns 1 with the
\* remaining items unattempted.
DeliverItem ==
    /\ pc = "deliver"
    /\ bot \in {"crime", "recall", "gjnews", "local", "article"}
    /\ idx <= Len(queue)
    /\ \E res \in IF DryRunPost(bot, dry_run) THEN {<<>>} ELSE PostOutcomes :
       \E io \in IF Accepted(bot, dry_run, res) THEN StoreOutcomes(bot)
                 ELSE {"none"} :
          LET id == queue[idx]
              cost == Failures(res) + IF io \in {"wfail", "rfail"} THEN 1 ELSE 0
              saved == SaveSeen(file, seen, StoreKey(bot, id), id, io)
              now == Append(sent, Invocation(id, res,
                                             Accepted(bot, dry_run, res), io))
          IN /\ faults + cost <= MaxFaults
             /\ faults' = faults + cost
             /\ IF Escapes(bot, res, io)
                THEN /\ runs' = Append(runs, RunRecord(yielded, missed, now, posted,
                                                       Len(queue), "failed"))
                     /\ pc' = AfterRun(bot)
                     /\ yielded' = <<>>
                     /\ missed' = 0
                     /\ queue' = <<>>
                     /\ idx' = 1
                     /\ sent' = <<>>
                     /\ posted' = 0
                     /\ seen' = IF Continuous(bot) THEN seen ELSE {}
                     /\ file' = file
                ELSE /\ sent' = now
                     /\ idx' = NextItem(idx, Accepted(bot, dry_run, res))
                     /\ IF Accepted(bot, dry_run, res)
                        THEN /\ file' = saved.file
                             /\ seen' = saved.seen
                             /\ posted' = CountPosted(posted, io)
                        ELSE UNCHANGED <<file, seen, posted>>
                     /\ UNCHANGED <<pc, yielded, missed, queue, runs>>
    /\ UNCHANGED <<dry_run, view, execs, bot, nhooks, listing, disk, ops,
                   posted_images>>

\* One pass of the loop of FacebookStealthBot.run.  A failing write raises out
\* of run(); run_continuous catches it and waits for the next check.
CoronerDeliver ==
    /\ pc = "deliver"
    /\ bot = "coroner"
    /\ idx <= Len(queue)
    /\ \E res \in PostOutcomes :
       \E io \in IF Confirmed(bot, res) THEN StoreOutcomes(bot) ELSE {"none"} :
       \E drop \in IF Confirmed(bot, res) THEN Droppable(seen \cup {queue[idx]})
                   ELSE {{}} :
          LET id == queue[idx]
              cost == Failures(res) + IF io = "wfail" THEN 1 ELSE 0
              saved == CoronerSaveSeenItem(file, seen, id, drop, io)
              now == Append(sent, Invocation(id, res, Confirmed(bot, res), io))
          IN /\ faults + cost <= MaxFaults
             /\ faults' = faults + cost
             /\ IF Confirmed(bot, res)
                THEN file' = saved.file /\ seen' = saved.seen
                ELSE UNCHANGED <<file, seen>>
             /\ IF io = "wfail"
                THEN /\ runs' = Append(runs, RunRecord(yielded, missed, now, posted,
                                                       Len(queue), "raised"))
                     /\ pc' = "idle"
                     /\ yielded' = <<>>
                     /\ missed' = 0
                     /\ queue' = <<>>
                     /\ sent' = <<>>
                     /\ idx' = 1
                ELSE /\ sent' = now
                     /\ idx' = NextItem(idx, Confirmed(bot, res))
                     /\ UNCHANGED <<runs, pc, yielded, missed, queue>>
    /\ UNCHANGED <<dry_run, view, execs, bot, nhooks, listing, disk, ops,
                   posted_images, posted>>

\* check_and_post_cameras: a camera without image_url, or whose image was
\* already posted, is passed over.
CameraSkip ==
    /\ pc = "deliver"
    /\ bot = "camera"
    /\ idx <= Len(queue)
    /\ \/ queue[idx].image_url = 0
       \/ IsImageAlreadyPosted(posted_images, queue[idx].image_url)
    /\ idx' = idx + 1
    /\ UNCHANGED <<dry_run, view, execs, bot, nhooks, listing, disk, ops, file, seen,
                   posted_images, pc, yielded, missed, queue, sent, posted, runs,
                   faults>>

\* check_and_post_cameras: the camera is posted to every webhook and marked
\* when one of them took it.
CameraDeliver ==
    /\ pc = "deliver"
    /\ bot = "camera"
    /\ idx <= Len(queue)
    /\ queue[idx].image_url # 0
    /\ ~IsImageAlreadyPosted(posted_images, queue[idx].image_url)
    /\ \E res \in PostOutcomes :
       \E io \in IF Confirmed(bot, res) /\ ~IsCocam(queue[idx].image_url)
                 THEN StoreOutcomes(bot) ELSE {"none"} :
          LET id == queue[idx].image_url
              cost == Failures(res) + IF io = "wfail" THEN 1 ELSE 0
              marked == MarkImageAsPosted(file, posted_images, id, io)
          IN /\ faults + cost <= MaxFaults
             /\ faults' = faults + cost
             /\ sent' = Append(sent, Invocation(id, res, Confirmed(bot, res), io))
             /\ IF Confirmed(bot, res)
                THEN /\ file' = marked.file
                     /\ posted_images' = marked.posted
                     /\ posted' = posted + 1
                ELSE UNCHANGED <<file, posted_images, posted>>
             /\ idx' = NextItem(idx, Confirmed(bot, res))
    /\ UNCHANGED <<dry_run, view, execs, bot, nhooks, listing, disk, ops, seen, pc,
                   yielded, missed, queue, runs>>

\* The item loop is through: run() prints its count and returns.
Finish ==
    /\ pc = "deliver"
    /\ idx > Len(queue)
    /\ runs' = Append(runs, RunRecord(yielded, missed, sent, posted, Len(queue),
                                      "done"))
    /\ pc' = AfterRun(bot)
    /\ yielded' = <<>>
    /\ missed' = 0
    /\ queue' = <<>>
    /\ idx' = 1
    /\ sent' = <<>>
    /\ posted' = 0
    /\ IF Continuous(bot)
       THEN UNCHANGED <<seen, posted_images>>
       ELSE seen' = {} /\ posted_images' = <<>>
    /\ UNCHANGED <<dry_run, view, execs, bot, nhooks, listing, disk, ops, file,
                   faults>>

\* The host abandons the run between two items (an environment fault like
\* the others): the process is gone, the file stays.
Abandon ==
    /\ pc = "deliver"
    /\ idx <= Len(queue)
    /\ faults < MaxFaults
    /\ faults' = faults + 1
    /\ runs' = Append(runs, RunRecord(yielded, missed, sent, posted, Len(queue),
                                      "abandoned"))
    /\ pc' = "off"
    /\ yielded' = <<>>
    /\ missed' = 0
    /\ queue' = <<>>
    /\ idx' = 1
    /\ sent' = <<>>
    /\ posted' = 0
    /\ seen' = {}
    /\ posted_images' = <<>>
    /\ UNCHANGED <<dry_run, view, execs, bot, nhooks, listing, disk, ops, file>>

\* A continuous bot is stopped between two checks.
Exit ==
    /\ pc = "idle"
    /\ Continuous(bot)
    /\ runs # <<>>
    /\ pc' = "off"
    /\ seen' = {}
    /\ posted_images' = <<>>
    /\ UNCHANGED <<dry_run, view, execs, bot, nhooks, listing, disk, ops, file,
                   yielded, missed, queue, idx, sent, posted, runs, faults>>

Next ==
    \/ Construct
    \/ BeginRun
    \/ DeliverItem
    \/ CoronerDeliver
    \/ CameraSkip
    \/ CameraDeliver
    \/ Finish
    \/ Abandon
    \/ Exit

Spec == Init /\ [][Next]_vars

\* The item loop is straight-line code in one thread and every request in
\* it carries a timeout, so a pass that can be made is made, and a loop that
\* is through returns.
Fairness ==
    /\ WF_vars(DeliverItem)
    /\ WF_vars(CoronerDeliver)
    /\ WF_vars(CameraSkip)
    /\ WF_vars(CameraDeliver)
    /\ WF_vars(Finish)

FairSpec == Spec /\ Fairness

\* The environment of the next process: whoever starts the recall bot sets
\* DRY_RUN to "1" or leaves it unset.  Spec is the bots as they are deployed,
\* without it; DrySpec adds the runs started with it.
Setenv ==
    /\ pc = "off"
    /\ bot = "recall"
    /\ Len(runs) < MaxRuns
    /\ dry_run' = ~dry_run
    /\ UNCHANGED <<view, execs, bot, nhooks, listing, disk, ops, file, seen,
                   posted_images, pc, yielded, missed, queue, idx, sent, posted,
                   runs, faults>>

DryNext == Next \/ Setenv

DrySpec == Init /\ [][DryNext]_vars

\* ------------------------------------------------------- the store alone
\* The load and save functions of each bot, applied to a store file in any
\* condition and of any size up to its capacity, without the fetch and
\* delivery around them.

DiskStates == {"valid", "missing", "corrupt", "nokey"}

\* The identities a stored list holds.
FileIds(b, stored) ==
    IF b \in {"recall", "gjnews", "local"}
    THEN {stored[i][2] : i \in 1..Len(stored)}
    ELSE Range(stored)

\* Faulty variant: a load without a try, which raises on a file that is not JSON.
LoadStoreUnguarded(b, d, stored) ==
    [raised |-> d = "corrupt",
     seen   |-> IF d = "valid" /\ b # "camera" THEN LoadSeen(b, stored) ELSE {},
     posted |-> IF d = "valid" /\ b = "camera" THEN stored ELSE <<>>]

\* The load in __init__: _load_seen_items, _load_seen_links and
\* load_posted_images return an empty store for a file that is missing, not
\* JSON or without the list; FacebookStealthBot._load_seen_items has no try,
\* so json.load raises out of the constructor on a file that is not JSON.
LoadStore(b, d, stored) ==
    [raised |-> b = "coroner" /\ d = "corrupt",
     seen   |-> IF d = "valid" /\ b # "camera" THEN LoadSeen(b, stored) ELSE {},
     posted |-> IF d = "valid" /\ b = "camera" THEN stored ELSE <<>>]

\* Store files written by earlier runs: identities 1..n in the order they
\* were recorded, up to the capacity of the capped bots.
Prefills == {0, 2, MAX_SEEN_ITEMS - 1, MAX_SEEN_ITEMS}

StoredBefore(b) == {[i \in 1..n |-> StoreKey(b, i)] : n \in Prefills}

\* The identities held in memory.
Memory == IF bot = "camera" THEN Range(posted_images) ELSE seen

\* One store operation, with what the file and the memory held before it.
Op(op, id, io, drop) ==
    [op |-> op, id |-> id, io |-> io, drop |-> drop, was |-> disk,
     had |-> FileIds(bot, file), mem |-> Memory, list |-> posted_images]

\* The identity the next record is for: a new one, later than every one
\* before it; an already stored one where the save looks it up in the file;
\* a cocam.carsprogram.org image in the camera bot.
RecordIds ==
    {MAX_SEEN_ITEMS + 1 + Len(ops)}
    \cup (IF bot = "camera" THEN {-1} ELSE {})
    \cup (IF bot \in {"crime", "article", "recall", "gjnews", "local"} THEN {1} ELSE {})

StoreInit ==
    /\ bot \in Bots
    /\ nhooks = 1
    /\ listing = <<<<>>>>
    /\ disk \in DiskStates
    /\ file \in IF disk = "valid" THEN StoredBefore(bot) ELSE {<<>>}
    /\ seen = {}
    /\ posted_images = <<>>
    /\ pc = "off"
    /\ yielded = <<>>
    /\ missed = 0
    /\ queue = <<>>
    /\ idx = 1
    /\ sent = <<>>
    /\ posted = 0
    /\ runs = <<>>
    /\ faults = 0
    /\ ops = <<>>
    /\ execs = <<>>
    /\ dry_run = FALSE
    /\ view = <<>>

\* __init__ with the file as it is: a load that raises ends the process.
StoreLoad ==
    /\ pc = "off"
    /\ Len(ops) < MaxOps
    /\ LET l == LoadStore(bot, disk, file)
       IN /\ pc' = IF l.raised THEN "failed" ELSE "idle"
          /\ seen' = l.seen
          /\ posted_images' = l.posted
    /\ ops' = Append(ops, Op("load", 0, "ok", {}))
    /\ UNCHANGED <<dry_run, view, execs, bot, nhooks, listing, disk, file, yielded,
                   missed, queue, idx, sent, posted, runs, faults>>

\* The save after a confirmed delivery: _save_seen_item, _save_seen_link or
\* mark_image_as_posted.  A behaviour has one eviction with a free choice.
StoreRecord ==
    /\ pc = "idle"
    /\ Len(ops) < MaxOps
    /\ \E id \in RecordIds :
       \E io \in IF IsCocam(id) THEN {"ok"} ELSE StoreOutcomes(bot) :
       \E drop \in IF bot = "coroner" THEN Droppable(seen \cup {id}) ELSE {{}} :
          /\ drop # {} => \A k \in 1..Len(ops) : ops[k].drop = {}
          /\ ops' = Append(ops, Op("record", id, io, drop))
          /\ CASE bot = "camera" ->
                   LET m == MarkImageAsPosted(file, posted_images, id, io)
                   IN /\ file' = m.file
                      /\ posted_images' = m.posted
                      /\ seen' = seen
                      /\ disk' = IF io = "ok" /\ ~IsCocam(id) THEN "valid" ELSE disk
               [] bot = "coroner" ->
                   LET c == CoronerSaveSeenItem(file, seen, id, drop, io)
                   IN /\ file' = c.file
                      /\ seen' = c.seen
                      /\ posted_images' = posted_images
                      /\ disk' = IF io = "ok" THEN "valid" ELSE disk
               [] OTHER ->
                   LET v == SaveSeen(file, seen, StoreKey(bot, id), id, io)
                   IN /\ file' = v.file
                      /\ seen' = v.seen
                      /\ posted_images' = posted_images
                      /\ disk' = IF v.file # file THEN "valid" ELSE disk
    /\ UNCHANGED <<dry_run, view, execs, bot, nhooks, listing, pc, yielded, missed,
                   queue, idx, sent, posted, runs, faults>>

\* The process stops inside the write of a save: open(..., 'w') has emptied
\* the file and json.dump has not finished, so what is left is not JSON.
StoreCrash ==
    /\ pc = "idle"
    /\ Len(ops) < MaxOps
    /\ ops' = Append(ops, Op("crash", MAX_SEEN_ITEMS + 1 + Len(ops), "torn", {}))
    /\ disk' = "corrupt"
    /\ file' = <<>>
    /\ pc' = "off"
    /\ seen' = {}
    /\ posted_images' = <<>>
    /\ UNCHANGED <<dry_run, view, execs, bot, nhooks, listing, yielded, missed, queue,
                   idx, sent, posted, runs, faults>>

\* The process ends between two saves.
StoreExit ==
    /\ pc = "idle"
    /\ pc' = "off"
    /\ seen' = {}
    /\ posted_images' = <<>>
    /\ UNCHANGED <<dry_run, view, execs, bot, nhooks, listing, disk, ops, file,
                   yielded, missed, queue, idx, sent, posted, runs, faults>>

StoreNext ==
    \/ StoreLoad
    \/ StoreRecord
    \/ StoreCrash
    \/ StoreExit

StoreSpec == StoreInit /\ [][StoreNext]_vars

\* ------------------------------------------------------- overlapping runs
\* Two executions of the run of one bot over one store file, started by a
\* host that does not wait for the first to end: two processes of the
\* crime-watch bot, each with its own seen set, or two executions of
\* check_for_articles (the background loop and "!check") on the one global
\* scraper of the article maker.  The post and the save that follows it are
\* two steps, and the other execution may run between them.

Execs == 1..2

\* The article maker has one CrimeWatchBot for all its executions.
SharedMemory(b) == b = "article"

\* Faulty variant: a run that starts only when no other one is in progress.
MayBeginAlone(e) == \A x \in Execs \ {e} : execs[x].pc \in {"off", "idle", "done"}

\* Whether an execution may begin while another one is in progress: run(),
\* main(), check_for_articles and manual_check take no lock and look at no
\* marker of a run in progress.
MayBegin(e) == TRUE

\* Faulty variant: a loop that goes on to the next item with the save pending.
AfterPostSaveLater(ok) == "ready"

\* Where the item loop is after the notifier answered: a posted item is saved
\* before anything else, a failed one is passed over.
AfterPost(ok) == IF ok THEN "posted" ELSE "ready"

\* Listings no longer than MaxLen - 1.
ShortListings(b) == {l \in Listings(b) : Len(l[1]) < MaxLen}

OverlapInit ==
    /\ dry_run = FALSE
    /\ view = <<>>
    /\ bot \in {"crime", "article"}
    /\ nhooks = 1
    /\ listing \in ShortListings(bot)
    /\ file = <<>>
    /\ seen = {}
    /\ posted_images = <<>>
    /\ pc = "off"
    /\ yielded = <<>>
    /\ missed = 0
    /\ queue = <<>>
    /\ idx = 1
    /\ sent = <<>>
    /\ posted = 0
    /\ runs = <<>>
    /\ faults = 0
    /\ disk = "valid"
    /\ ops = <<>>
    /\ execs = [e \in Execs |->
                  [pc |-> IF SharedMemory(bot) THEN "idle" ELSE "off",
                   seen |-> {}, queue |-> <<>>, idx |-> 1, sent |-> <<>>]]

\* The seen set changed in execution e, as the other executions see it.
WithSeen(e, mine, seen_items) ==
    [x \in Execs |->
        IF x = e THEN mine
        ELSE IF SharedMemory(bot) THEN [execs[x] EXCEPT !.seen = seen_items]
        ELSE execs[x]]

\* __init__ of a process of the crime-watch bot.
OverlapConstruct(e) ==
    /\ execs[e].pc = "off"
    /\ ~SharedMemory(bot)
    /\ execs' = [execs EXCEPT ![e].pc = "idle", ![e].seen = LoadSeen(bot, file)]
    /\ UNCHANGED <<dry_run, view, bot, nhooks, listing, disk, ops, file, seen,
                   posted_images, pc, yielded, missed, queue, idx, sent, posted, runs,
                   faults>>

\* run() or check_for_articles up to the item loop.
OverlapBeginRun(e) ==
    /\ execs[e].pc = "idle"
    /\ MayBegin(e)
    /\ LET q == DeliveryQueue(bot, ScrapeNewsFeed(listing[1], execs[e].seen))
       IN execs' = [execs EXCEPT ![e].pc = IF q = <<>> THEN "done" ELSE "ready",
                                 ![e].queue = q]
    /\ UNCHANGED <<dry_run, view, bot, nhooks, listing, disk, ops, file, seen,
                   posted_images, pc, yielded, missed, queue, idx, sent, posted, runs,
                   faults>>

\* _post_to_discord / channel.send for the next item of the loop.
OverlapPost(e) ==
    /\ execs[e].pc = "ready"
    /\ execs[e].idx <= Len(execs[e].queue)
    /\ \E ok \in BOOLEAN :
          LET id == execs[e].queue[execs[e].idx]
              cost == IF ok THEN 0 ELSE 1
          IN /\ faults + cost <= MaxFaults
             /\ faults' = faults + cost
             /\ execs' = [execs EXCEPT
                   ![e].pc = AfterPost(ok),
                   ![e].idx = IF AfterPost(ok) = "posted" THEN @ ELSE @ + 1,
                   ![e].sent = Append(@, Invocation(id, <<ok>>, ok,
                                                    IF ok THEN "pending" ELSE "none"))]
    /\ UNCHANGED <<dry_run, view, bot, nhooks, listing, disk, ops, file, seen,
                   posted_images, pc, yielded, missed, queue, idx, sent, posted, runs>>

\* _save_seen_item / mark_as_seen for the item just posted.
OverlapSave(e) ==
    /\ execs[e].pc = "posted"
    /\ \E io \in StoreOutcomes(bot) :
          LET id == execs[e].queue[execs[e].idx]
              cost == IF io = "ok" THEN 0 ELSE 1
              saved == SaveSeen(file, execs[e].seen, StoreKey(bot, id), id, io)
              n == Len(execs[e].sent)
              mine == [execs[e] EXCEPT !.pc = "ready", !.idx = @ + 1,
                                       !.seen = saved.seen, !.sent[n].io = io]
          IN /\ faults + cost <= MaxFaults
             /\ faults' = faults + cost
             /\ file' = saved.file
             /\ execs' = WithSeen(e, mine, saved.seen)
    /\ UNCHANGED <<dry_run, view, bot, nhooks, listing, disk, ops, seen,
                   posted_images, pc, yielded, missed, queue, idx, sent, posted, runs>>

\* The item loop is through.
OverlapFinish(e) ==
    /\ execs[e].pc = "ready"
    /\ execs[e].idx > Len(execs[e].queue)
    /\ execs' = [execs EXCEPT ![e].pc = "done"]
    /\ UNCHANGED <<dry_run, view, bot, nhooks, listing, disk, ops, file, seen,
                   posted_images, pc, yielded, missed, queue, idx, sent, posted, runs,
                   faults>>

OverlapNext ==
    \E e \in Execs :
        \/ OverlapConstruct(e)
        \/ OverlapBeginRun(e)
        \/ OverlapPost(e)
        \/ OverlapSave(e)
        \/ OverlapFinish(e)

OverlapSpec == OverlapInit /\ [][OverlapNext]_vars

\* ------------------------------------------------- the relevance filter
\* LocalNewsBot._is_local, called with arguments drawn from small sets while
\* the seen set grows between the calls.  A text is a sequence of words; the
\* blank that joins two texts is the boundary between their words.

\* str.lower() on a word.
LowerWord(w) ==
    CASE w = "Grand" -> "grand"
      [] w = "Junction" -> "junction"
      [] w = "Local" -> "local"
      [] OTHER -> w

Lower(text) == [i \in 1..Len(text) |-> LowerWord(text[i])]

\* part in text
Contains(text, part) ==
    \E k \in 0..(Len(text) - Len(part)) : SubSeq(text, k + 1, k + Len(part)) = part

WESTERN_CO_LOCATIONS ==
    {<<"grand", "junction">>, <<"mesa", "county">>, <<"western", "slope">>,
     <<"western", "colorado">>, <<"palisade">>, <<"fruita">>, <<"clifton">>,
     <<"montrose">>, <<"delta">>, <<"telluride">>, <<"durango">>, <<"cortez">>,
     <<"ouray">>, <<"ridgway">>, <<"cedaredge">>, <<"paonia">>}

LOCAL_TAGS == {<<"local">>, <<"local", "news">>, <<"living", "local">>}

\* Faulty variant: a filter that lets articles through only while nothing is seen.
IsLocalWhileUnseen(title, summary, tags, source) ==
    /\ seen = {}
    /\ \E location \in WESTERN_CO_LOCATIONS : Contains(Lower(title \o summary), location)

\* LocalNewsBot._is_local
IsLocal(title, summary, tags, source) ==
    IF source = "Western Slope Now"
    THEN \E i \in 1..Len(tags) : \E lt \in LOCAL_TAGS : Contains(Lower(tags[i]), lt)
    ELSE \E location \in WESTERN_CO_LOCATIONS :
             Contains(Lower(title \o summary), location)

\* The arguments of the calls.
Titles == {<<"Grand">>, <<"denver">>}

Summaries == {<<"Junction", "news">>, <<"sports">>}

TagLists == {<<<<"Local", "news">>>>, <<<<"sports">>>>}

Sources == {"KJCT8", "Daily Sentinel", "Western Slope Now"}

FilterInit ==
    /\ bot = "local"
    /\ nhooks = 1
    /\ listing = <<<<>>, <<>>, <<>>>>
    /\ file = <<>>
    /\ seen = {}
    /\ posted_images = <<>>
    /\ pc = "idle"
    /\ yielded = <<>>
    /\ missed = 0
    /\ queue = <<>>
    /\ idx = 1
    /\ sent = <<>>
    /\ posted = 0
    /\ runs = <<>>
    /\ faults = 0
    /\ disk = "valid"
    /\ ops = <<>>
    /\ execs = <<>>
    /\ dry_run = FALSE
    /\ view = <<>>

\* One call of _is_local from _fetch_rss_news, with what it returned.
FilterCall ==
    /\ Len(ops) < MaxCalls
    /\ \E title \in Titles, summary \in Summaries, tags \in TagLists, source \in Sources :
          ops' = Append(ops, [op |-> "is_local",
                              args |-> <<title, summary, tags, source>>,
                              result |-> IsLocal(title, summary, tags, source),
                              seen |-> seen])
    /\ UNCHANGED <<dry_run, view, execs, bot, nhooks, listing, disk, file, seen,
                   posted_images, pc, yielded, missed, queue, idx, sent, posted, runs,
                   faults>>

\* _save_seen_link between two calls: the seen set and the file grow.
FilterSave ==
    /\ Cardinality(seen) < MaxLen
    /\ LET link == Cardinality(seen) + 1
           saved == SaveSeen(file, seen, StoreKey(bot, link), link, "ok")
       IN file' = saved.file /\ seen' = saved.seen
    /\ UNCHANGED <<dry_run, view, execs, bot, nhooks, listing, disk, ops,
                   posted_images, pc, yielded, missed, queue, idx, sent, posted, runs,
                   faults>>

FilterNext == FilterCall \/ FilterSave

FilterSpec == FilterInit /\ [][FilterNext]_vars

\* ---------------------------------------------- the buttons of one article
\* One ArticleView of the article maker and the handlers discord.py calls on
\* it.  The handlers are coroutines on one event loop: a handler runs alone
\* from one await to the next, and at an await any other handler may run.
Buttons == {"skip", "make_article"}

\* A handler invocation: the button, the await it stands at, whether it
\* passed the guard, the OpenAI calls and the channel messages it made, and
\* the reply its user got.
Handler(button, at, passed) ==
    [button |-> button, pc |-> at, passed |-> passed, generated |-> 0, sent |-> 0,
     said |-> "none"]

\* Faulty variant: a failed generation that gives the article back to the
\* buttons.
ProcessedAfterFailureReset(processed) == FALSE

\* The error branches of make_article_button reply and return; none of them
\* assigns self.processed.
ProcessedAfterFailure(processed) == processed

\* The await that follows when the one a handler stands at has returned.
NextAwait(at) ==
    CASE at = "reply" -> "done"
      [] at = "edit_message" -> "confirm"
      [] at = "confirm" -> "done"
      [] at = "defer" -> "message_edit"
      [] at = "message_edit" -> "status"
      [] at = "status" -> "fetch"
      [] at = "fetch" -> "send"
      [] at = "send" -> "delete"
      [] at = "delete" -> "done"
      [] at = "report" -> "done"

\* The awaits of make_article_button inside its try.
InTry(at) == at \in {"fetch", "send", "delete"}

\* What the user of a handler was told when the handler returned.
Said(at) ==
    CASE at = "reply" -> "already"
      [] at = "confirm" -> "skipped"
      [] at = "delete" -> "article"
      [] at = "report" -> "error"
      [] OTHER -> "none"

\* What the await a handler stands at can give: it returns ("ok") or raises
\* ("fail"); the content fetch can also return a text that is unusable or too
\* short ("nocontent"), and after a usable one the OpenAI call, which is made
\* without an await, can give nothing usable ("badanswer").
Outcomes(at) ==
    IF at = "fetch" THEN {"ok", "fail", "nocontent", "badanswer"} ELSE {"ok", "fail"}

\* The handler after the await it stood at gave out.
Resumed(x, out) ==
    LET to == IF out = "ok" THEN NextAwait(x.pc)
              ELSE IF InTry(x.pc) THEN "report"
              ELSE "raised"
    IN [x EXCEPT !.pc = to,
                 !.generated = IF x.pc = "fetch" /\ out \in {"ok", "badanswer"}
                               THEN @ + 1 ELSE @,
                 !.sent = IF x.pc = "send" /\ out = "ok" THEN @ + 1 ELSE @,
                 !.said = IF to = "done" THEN Said(x.pc) ELSE @]

ViewInit ==
    /\ bot = "article"
    /\ nhooks = 1
    /\ listing = <<<<>>>>
    /\ file = <<>>
    /\ seen = {}
    /\ posted_images = <<>>
    /\ pc = "idle"
    /\ yielded = <<>>
    /\ missed = 0
    /\ queue = <<>>
    /\ idx = 1
    /\ sent = <<>>
    /\ posted = 0
    /\ runs = <<>>
    /\ faults = 0
    /\ disk = "valid"
    /\ ops = <<>>
    /\ execs = <<>>
    /\ dry_run = FALSE
    /\ view = [processed |-> FALSE, handlers |-> <<>>]

\* A click: the handler runs up to its first await.  With processed set that
\* is the "already been processed" reply; otherwise processed is set, in the
\* same stretch of code, and the handler goes on to its own first await.
Clicked(button) ==
    /\ Len(view.handlers) < MaxClicks
    /\ view' =
          IF view.processed
          THEN [view EXCEPT !.handlers = Append(@, Handler(button, "reply", FALSE))]
          ELSE [processed |-> TRUE,
                handlers |-> Append(view.handlers,
                                    Handler(button,
                                            IF button = "skip" THEN "edit_message"
                                            ELSE "defer",
                                            TRUE))]
    /\ UNCHANGED <<dry_run, execs, bot, nhooks, listing, disk, ops, file, seen,
                   posted_images, pc, yielded, missed, queue, idx, sent, posted, runs,
                   faults>>

skip_button == Clicked("skip")

make_article_button == Clicked("make_article")

\* A handler goes on from the await it stood at.
Resume(h) ==
    /\ h \in 1..Len(view.handlers)
    /\ view.handlers[h].pc \notin {"done", "raised"}
    /\ \E out \in Outcomes(view.handlers[h].pc) :
          LET x == Resumed(view.handlers[h], out)
          IN view' = [processed |-> IF x.pc = "report"
                                    THEN ProcessedAfterFailure(view.processed)
                                    ELSE view.processed,
                      handlers |-> [view.handlers EXCEPT ![h] = x]]
    /\ UNCHANGED <<dry_run, execs, bot, nhooks, listing, disk, ops, file, seen,
                   posted_images, pc, yielded, missed, queue, idx, sent, posted, runs,
                   faults>>

ViewNext ==
    \/ skip_button
    \/ make_article_button
    \/ \E h \in 1..MaxClicks : Resume(h)

ViewSpec == ViewInit /\ [][ViewNext]_vars




\* ============================================================= properties
\* The identities of a sequence of notifier invocations, in order.
Ids(invocations) == [i \in 1..Len(invocations) |-> invocations[i].id]

\* A run that fetched everything it asked for and confirmed and recorded
\* every item it handed to the notifier.
Faultless(r) ==
    /\ r.end = "done"
    /\ r.missed = 0
    /\ \A i \in 1..Len(r.sent) : r.sent[i].rec /\ r.sent[i].io = "ok"

\* A faultless run that the per-run cap of the recall bot did not cut.
RecordedAll(r) ==
    /\ Faultless(r)
    /\ bot = "recall" => Len(r.new) < MAX_RECALLS_PER_RUN

\* C1 as stated, read in its favour: for CrimeWatchBot.run and RecallBot.run,
\* of two runs in sequence over the same unchanged listing, the first of which
\* confirmed and recorded every item it delivered, the second delivers zero
\* items.
C1_SecondRunDeliversNothing ==
    (bot \in {"crime", "recall"} /\ Len(runs) >= 2
        /\ Faultless(runs[1])
        /\ runs[2].end = "done" /\ runs[2].missed = 0)
    => runs[2].sent = <<>>

\* C1 amended: for CrimeWatchBot.run and RecallBot.run, when a run fetched the
\* listing (and every recall page), found fewer new recalls than
\* MAX_RECALLS_PER_RUN and confirmed and recorded every item it delivered, the
\* run that follows it over the unchanged listing delivers zero items.
C1_SecondRunDeliversNothingAfterRecordedRun ==
    bot \in {"crime", "recall"} =>
        \A k \in 1..(Len(runs) - 1) :
            RecordedAll(runs[k]) =>
                /\ runs[k + 1].sent = <<>>
                /\ runs[k + 1].new = <<>>

\* C1 witness: two runs done, the first delivered and recorded all its items.
C1_Witness ==
    /\ bot \in {"crime", "recall"}
    /\ Len(runs) = 2
    /\ RecordedAll(runs[1])
    /\ Len(runs[1].sent) >= 2
    /\ runs[2].end = "done"


\* Some webhook took the item.
SomeSuccess(inv) == \E w \in 1..Len(inv.res) : inv.res[w]

\* A run that found three different new items and whose only fault was the
\* notifier failing for the second one it delivered.
SecondOfThreeFailed(r) ==
    /\ r.end = "done"
    /\ r.missed = 0
    /\ Len(r.sent) = 3
    /\ Cardinality(Range(Ids(r.sent))) = 3
    /\ SomeSuccess(r.sent[1]) /\ r.sent[1].io = "ok"
    /\ ~SomeSuccess(r.sent[2])
    /\ SomeSuccess(r.sent[3]) /\ r.sent[3].io = "ok"

\* C2: in the crime-watch bot, when a run has three new items and the notifier
\* fails only for the second one delivered, the first and the third identity
\* are recorded, the second is not, the run reports 2 of 3 posted, and the run
\* that follows over the same listing attempts the second item only.
C2_PartialFailureIsolation ==
    bot = "crime" =>
        \A k \in 1..Len(runs) :
            SecondOfThreeFailed(runs[k]) =>
                /\ runs[k].posted = 2
                /\ runs[k].total = 3
                /\ (k = Len(runs) /\ pc \in {"off", "idle"}) =>
                       /\ runs[k].sent[1].id \in Range(file)
                       /\ runs[k].sent[3].id \in Range(file)
                       /\ runs[k].sent[2].id \notin Range(file)
                /\ (k < Len(runs) /\ runs[k + 1].end = "done"
                        /\ runs[k + 1].missed = 0) =>
                       Ids(runs[k + 1].sent) = <<runs[k].sent[2].id>>

\* C2 witness: such a run was followed by a complete run.
C2_Witness ==
    /\ bot = "crime"
    /\ Len(runs) = 2
    /\ SecondOfThreeFailed(runs[1])
    /\ runs[2].end = "done"
    /\ runs[2].missed = 0

\* C3: in GJNewsBot and LocalNewsBot, when delivery fails for one new item and
\* a newer item of the same source is delivered and recorded in the same run,
\* the run that follows over the same listing attempts the failed item again.
C3_FailedItemAttemptedAgain ==
    bot \in {"gjnews", "local"} =>
        \A k \in 1..(Len(runs) - 1) :
            (runs[k].end = "done" /\ runs[k + 1].end = "done"
                /\ runs[k + 1].missed = 0) =>
                \A i, j \in 1..Len(runs[k].sent) :
                    (/\ i < j
                     /\ ~SomeSuccess(runs[k].sent[i])
                     /\ runs[k].sent[j].rec /\ runs[k].sent[j].io = "ok"
                     /\ SourceOf(runs[k].sent[i].id) = SourceOf(runs[k].sent[j].id))
                    => runs[k].sent[i].id \in Range(Ids(runs[k + 1].sent))

\* C4: in CrimeWatchBot.run and RecallBot.run the notifier is invoked in the
\* reverse of the order in which the fetch step yielded the new items.
C4_OldestFirst ==
    bot \in {"crime", "recall"} =>
        /\ pc = "deliver" => Ids(sent) = Take(Reverse(yielded), Len(sent))
        /\ \A k \in 1..Len(runs) :
               runs[k].end = "done" => Ids(runs[k].sent) = Reverse(runs[k].new)

\* C4 witness: the listing [C, B, A], all new, was delivered as [A, B, C].
C4_Witness ==
    /\ bot \in {"crime", "recall"}
    /\ listing[1] = <<1, 2, 3>>
    /\ Len(runs) = 1
    /\ runs[1].new = <<1, 2, 3>>
    /\ Ids(runs[1].sent) = <<3, 2, 1>>

\* The identities the fetch step of a run yielded, in order.
NewIds(r) ==
    IF bot = "camera" THEN [i \in 1..Len(r.new) |-> r.new[i].image_url] ELSE r.new

\* C5: in the camera bot, the coroner bot and the article maker, the new items
\* of a run are delivered in the reverse of the order in which the source
\* yielded them.
C5_OldestFirstElsewhere ==
    bot \in {"camera", "coroner", "article"} =>
        \A k \in 1..Len(runs) :
            (runs[k].end = "done" /\ Len(runs[k].sent) = Len(runs[k].new))
            => Ids(runs[k].sent) = Reverse(NewIds(runs[k]))


\* Every notifier invocation so far: those of the runs that ended, then those
\* of the run in progress.
AllInvocations == Concat([k \in 1..Len(runs) |-> runs[k].sent]) \o sent

\* How often webhook w took identity id.
Successes(w, id) ==
    Cardinality({i \in 1..Len(AllInvocations) :
                    AllInvocations[i].id = id /\ AllInvocations[i].res[w]})

\* Runs that were serialized, fetched all they asked for, ran to their end and
\* met no store fault: only webhooks failed.
OnlyWebhooksFailed ==
    /\ \A k \in 1..Len(runs) : runs[k].end = "done" /\ runs[k].missed = 0
    /\ missed = 0
    /\ \A i \in 1..Len(AllInvocations) : AllInvocations[i].io \in {"ok", "none"}

\* C6: in RecallBot, GJNewsBot and LocalNewsBot, across serialized runs with
\* arbitrary per-webhook failures, no webhook receives a successful post of the
\* same identity more than once.
C6_AtMostOncePerWebhook ==
    (bot \in {"recall", "gjnews", "local"} /\ OnlyWebhooksFailed) =>
        \A w \in 1..nhooks :
            \A i \in 1..Len(AllInvocations) : Successes(w, AllInvocations[i].id) <= 1

\* The identities the camera bot has marked as posted in memory.
Marked == Range(posted_images)

\* C7: in COTripBot.check_and_post_cameras an item is marked as posted if and
\* only if at least one of the post_to_discord calls over DISCORD_WEBHOOKS for
\* it returned success; a failure of another webhook does not prevent it.
C7_MarkedIffSomeWebhookSucceeded ==
    bot = "camera" =>
        /\ \A i \in 1..Len(AllInvocations) :
               AllInvocations[i].rec <=> SomeSuccess(AllInvocations[i])
        /\ pc = "deliver" =>
               /\ posted = Cardinality({i \in 1..Len(sent) : SomeSuccess(sent[i])})
               /\ \A i \in 1..Len(sent) :
                      ~IsCocam(sent[i].id) =>
                          (sent[i].id \in Marked <=>
                              \E j \in 1..Len(sent) :
                                  sent[j].id = sent[i].id /\ SomeSuccess(sent[j]))

\* C7 witness: one webhook failed, the other took the image, and the image
\* is marked.
C7_Witness ==
    /\ bot = "camera"
    /\ pc = "deliver"
    /\ \E i \in 1..Len(sent) :
           /\ \E w \in 1..nhooks : ~sent[i].res[w]
           /\ SomeSuccess(sent[i])
           /\ sent[i].id \in Marked
           /\ posted >= 1

\* C8: in GJNewsBot, LocalNewsBot and RecallBot an item is treated as
\* confirmed, and its identity recorded, if and only if at least one webhook
\* call for it succeeds.
C8_ConfirmedIffSomeWebhookSucceeded ==
    bot \in {"gjnews", "local", "recall"} =>
        \A i \in 1..Len(AllInvocations) :
            AllInvocations[i].rec <=> SomeSuccess(AllInvocations[i])

\* The identities in the persisted file.
StoredIds ==
    IF bot \in {"recall", "gjnews", "local"}
    THEN {file[i][2] : i \in 1..Len(file)}
    ELSE Range(file)

Written(invocations, i) ==
    /\ invocations[i].rec
    /\ ~IsCocam(invocations[i].id)
    /\ invocations[i].io \in {"ok", "rfail"}
    /\ \A j \in (i + 1)..Len(invocations) : invocations[j].io # "rfail"

\* The store is below the size at which the bot starts to drop identities.
BelowCapacity ==
    /\ bot = "coroner" => Cardinality(seen) <= MAX_SEEN_ITEMS
    /\ bot = "camera" => Len(posted_images) <= MAX_POSTED_IMAGES

DeliveryConfirmed(inv) ==
    IF bot = "camera" THEN SomeSuccess(inv)
    ELSE \A w \in 1..Len(inv.res) : inv.res[w]

C11_StoppedWriteKeepsIdentities ==
    \A k \in 1..Len(ops) :
        ops[k].op = "crash" =>
            /\ k = Len(ops) => ops[k].had \subseteq FileIds(bot, file)
            /\ (k + 1 = Len(ops) /\ ops[k + 1].op = "load" /\ pc = "idle") =>
                   ops[k].had \subseteq Memory

\* An image URL of cocam.carsprogram.org.
Volatile(image_url) == image_url < 0

\* The positions of a sequence of cameras or invocations that are volatile.
VolatileCameras(cameras) ==
    {i \in 1..Len(cameras) : Volatile(cameras[i].image_url)}

VolatileInvocations(invocations) ==
    {i \in 1..Len(invocations) : Volatile(invocations[i].id)}

\* C12: in the camera bot an image URL of cocam.carsprogram.org counts as not
\* yet posted on every run: every run that ran to its end delivered each such
\* camera it selected, so two runs in a row over the same URL both deliver it.
C12_VolatileDeliveredEveryRun ==
    bot = "camera" =>
        /\ \A k \in 1..Len(runs) :
               runs[k].end = "done" =>
                   Cardinality(VolatileInvocations(runs[k].sent))
                       = Cardinality(VolatileCameras(runs[k].new))
        /\ (pc = "deliver" /\ idx <= Len(queue) /\ Volatile(queue[idx].image_url))
               => ENABLED CameraDeliver

\* C12 witness: two runs in a row both delivered the same volatile URL, the
\* first one with success.
C12_Witness ==
    /\ bot = "camera"
    /\ Len(runs) = 2
    /\ runs[1].end = "done" /\ runs[2].end = "done"
    /\ \E i \in 1..Len(runs[1].sent) : \E j \in 1..Len(runs[2].sent) :
           /\ Volatile(runs[1].sent[i].id)
           /\ runs[1].sent[i].rec
           /\ runs[2].sent[j].id = runs[1].sent[i].id

\* No volatile identity is in the posted list or in the file.
NoVolatileStored ==
    /\ \A i \in 1..Len(posted_images) : ~Volatile(posted_images[i])
    /\ \A i \in 1..Len(file) : ~Volatile(file[i])

\* A step of the camera loop that posted a volatile image.
PostedVolatile ==
    /\ bot = "camera"
    /\ pc = "deliver" /\ pc' = "deliver"
    /\ Len(sent') = Len(sent) + 1
    /\ Volatile(sent'[Len(sent')].id)

RecordedAtCapacity(capacity) ==
    /\ pc = "idle"
    /\ ops # <<>>
    /\ ops[Len(ops)].op = "record"
    /\ ~Volatile(ops[Len(ops)].id)
    /\ ops[Len(ops)].id \notin ops[Len(ops)].mem
    /\ Cardinality(ops[Len(ops)].mem) = capacity

\* C14: in the camera bot, after mark_image_as_posted records a 101st
\* distinct identity the posted list has exactly 100 entries, the one entry
\* gone is the oldest-recorded one, which is no longer taken as posted; the
\* list never has more than 100 entries after a record.
C14_CameraEvictsOldest ==
    bot = "camera" =>
        /\ Len(posted_images) <= MAX_POSTED_IMAGES
        /\ Len(file) <= MAX_POSTED_IMAGES
        /\ RecordedAtCapacity(MAX_POSTED_IMAGES) =>
               LET before == ops[Len(ops)].list
                   id == ops[Len(ops)].id
               IN /\ Len(posted_images) = MAX_POSTED_IMAGES
                  /\ posted_images = Append(Tail(before), id)
                  /\ Head(before) \notin Range(posted_images)
                  /\ \A i \in 2..Len(before) : before[i] \in Range(posted_images)
                  /\ ops[Len(ops)].io = "ok" => file = posted_images

\* C14 witness: the 101st identity was recorded and written.
C14_Witness ==
    /\ bot = "camera"
    /\ RecordedAtCapacity(MAX_POSTED_IMAGES)
    /\ ops[Len(ops)].io = "ok"
    /\ Len(file) = MAX_POSTED_IMAGES

\* The oldest of a set of identities: they are numbered in the order they
\* were recorded.
Oldest(ids) == CHOOSE x \in ids : \A y \in ids : x <= y

\* C15: when FacebookStealthBot._save_seen_item pushes the seen set past 100
\* identities, what is dropped is the oldest identity and no later one.
C15_CoronerEvictsOldest ==
    (bot = "coroner" /\ RecordedAtCapacity(MAX_SEEN_ITEMS)) =>
        LET before == ops[Len(ops)].mem
            id == ops[Len(ops)].id
        IN seen = (before \cup {id}) \ {Oldest(before)}

\* C16: in the crime-watch, news and recall bots the number of persisted
\* identities never exceeds a maximum (100, the capacity of the capped bots).
C16_StoreBounded ==
    bot \in {"crime", "gjnews", "local", "recall"} =>
        Cardinality(FileIds(bot, file)) <= MAX_SEEN_ITEMS

\* The process has just loaded a file that is missing, not JSON or without
\* the list.
LoadedUnusable ==
    /\ pc # "off"
    /\ ops # <<>>
    /\ ops[Len(ops)].op = "load"
    /\ ops[Len(ops)].was \in {"missing", "corrupt", "nokey"}

C18_CoronerTolerantLoad ==
    (bot = "coroner" /\ LoadedUnusable) => (pc = "idle" /\ seen = {})


C20_CoronerRunNeverRaises ==
    bot = "coroner" =>
        \A k \in 1..Len(runs) :
            /\ runs[k].end \in {"done", "abandoned"}
            /\ runs[k].end = "done" => Len(runs[k].sent) = runs[k].total


\* The invocations among these that some webhook took.
Delivered(invocations) ==
    {i \in 1..Len(invocations) : SomeSuccess(invocations[i])}

\* C21: in CrimeWatchBot.run, an item the notifier took is counted in the
\* run's posted total also when writing the identity file failed, no exception
\* ends the run, and the run goes on with the next item.
C21_WriteFailureStillCounted ==
    bot = "crime" =>
        /\ \A k \in 1..Len(runs) :
               /\ runs[k].end \in {"done", "abandoned"}
               /\ runs[k].posted = Cardinality(Delivered(runs[k].sent))
               /\ runs[k].end = "done" => Len(runs[k].sent) = runs[k].total
        /\ pc = "deliver" =>
               /\ posted = Cardinality(Delivered(sent))
               /\ Len(sent) = idx - 1

\* C21 witness: a run whose first item was delivered and met a failing write
\* went on to its second item and reported both as posted.
C21_Witness ==
    /\ bot = "crime"
    /\ \E k \in 1..Len(runs) :
           /\ runs[k].end = "done"
           /\ runs[k].total = 2
           /\ runs[k].sent[1].io = "wfail"
           /\ SomeSuccess(runs[k].sent[1])
           /\ Len(runs[k].sent) = 2
           /\ runs[k].posted = 2


\* The run of the crime-watch bot that ends in this step had its scrape fail.
ScrapeFailedRun ==
    /\ bot = "crime"
    /\ Len(runs') = Len(runs) + 1
    /\ runs'[Len(runs')].missed > 0

C23_CameraFetchFailureDeliversNothing ==
    bot = "camera" =>
        /\ (pc = "deliver" /\ (missed > 0 \/ listing[1] = <<>>)) => sent = <<>>
        /\ \A k \in 1..Len(runs) :
               (runs[k].missed > 0 \/ listing[1] = <<>>) => runs[k].sent = <<>>


\* The positions of entries that hold a candidate whose link is not seen.
Unseen(entries, seen_links) ==
    {i \in 1..Len(entries) : entries[i] # 0 /\ entries[i] \notin seen_links}

\* new is the entries at the positions in keep, in the order of the entries.
KeptInOrder(entries, keep, new) ==
    /\ Len(new) = Cardinality(keep)
    /\ \A i \in keep : new[Cardinality({k \in keep : k <= i})] = entries[i]

\* What the fetch step of the run that begins in this step returned.
FetchedNow == IF pc' = "deliver" THEN yielded' ELSE runs'[Len(runs')].new

\* A run begins in this step and its fetches all answer.
FetchStep ==
    /\ pc = "idle"
    /\ pc' = "deliver" \/ Len(runs') = Len(runs) + 1
    /\ IF pc' = "deliver" THEN missed' = 0 ELSE runs'[Len(runs')].missed = 0

\* C24: in the crime-watch bot, of the first MAX_ITEMS parsed cards of the
\* listing the scrape returns exactly those whose link is not in the seen set,
\* in the order in which they stand in the listing.
C24_CrimeDedupGate ==
    [][(bot = "crime" /\ FetchStep) =>
          LET entries == Take(listing[1], MAX_ITEMS)
          IN KeptInOrder(entries, Unseen(entries, seen), FetchedNow)]_vars

\* C24 witness: the scrape returned a card that stands behind a seen one.
C24_Witness ==
    /\ bot = "crime"
    /\ pc = "deliver"
    /\ sent = <<>>
    /\ \E i, j \in 1..Len(listing[1]) :
           /\ i < j
           /\ listing[1][i] \in seen
           /\ listing[1][j] \in Range(yielded)


\* MAX_ARTICLES_PER_SOURCE of the bot.
MaxArticlesPerSource(b) ==
    IF b = "gjnews" THEN MAX_ARTICLES_PER_SOURCE_GJ ELSE MAX_ARTICLES_PER_SOURCE_LOCAL

\* C25: in GJNewsBot and LocalNewsBot every candidate among the first
\* MAX_ARTICLES_PER_SOURCE entries of a source whose link is not in the seen
\* set is classified as new, whether or not an entry before it in the listing
\* is already seen.
C25_NewsDedupGate ==
    [][(bot \in {"gjnews", "local"} /\ FetchStep) =>
          \A s \in 1..NumSources(bot) :
              LET entries == Take(listing[s], MaxArticlesPerSource(bot))
              IN \A i \in Unseen(entries, seen) : entries[i] \in Range(FetchedNow)]_vars


\* Execution e is inside its item loop.
InProgress(e) == execs[e].pc \in {"ready", "posted"}

\* The identities both executions handed to the notifier with success.
AnnouncedTwice ==
    {execs[1].sent[i].id : i \in {j \in 1..Len(execs[1].sent) : execs[1].sent[j].rec}}
    \cap
    {execs[2].sent[i].id : i \in {j \in 1..Len(execs[2].sent) : execs[2].sent[j].rec}}

\* C26: nothing in the code of the crime-watch bot keeps two runs from
\* overlapping: a process can be started, begin its run and post its next
\* item whatever the other one is doing, and each run attempts every item its
\* own scrape returned; so when both consult the store before either records
\* an identity, that identity is announced twice.
C26_NoMutualExclusion ==
    bot = "crime" =>
        \A e \in Execs :
            /\ execs[e].pc = "off" => ENABLED OverlapConstruct(e)
            /\ execs[e].pc = "idle" => ENABLED OverlapBeginRun(e)
            /\ (execs[e].pc = "ready" /\ execs[e].idx <= Len(execs[e].queue))
                   => ENABLED OverlapPost(e)
            /\ execs[e].pc = "done" => Ids(execs[e].sent) = execs[e].queue

\* C26 witness: two overlapping runs of the crime-watch bot both announced the
\* same identity, which the file holds once.
C26_Witness ==
    /\ bot = "crime"
    /\ execs[1].pc = "done" /\ execs[2].pc = "done"
    /\ \E id \in AnnouncedTwice :
           Cardinality({i \in 1..Len(file) : file[i] = id}) = 1

\* C27: no two executions of check_for_articles are in progress at the same
\* time, and an article posted by one execution is not posted by another.
C27_ArticleRunsSerialized ==
    bot = "article" =>
        /\ ~(InProgress(1) /\ InProgress(2))
        /\ AnnouncedTwice = {}


C29_CameraFilterPerCandidate ==
    (bot = "camera" /\ pc = "deliver" /\ missed = 0 /\ listing[1] # <<>>) =>
        /\ \A i \in 1..Len(yielded) : yielded[i].sel
        /\ \A i \in 1..Len(listing[1]) :
               listing[1][i].sel => listing[1][i] \in Range(yielded)


OnePassEach ==
    pc = "deliver" =>
       /\ idx <= Len(queue) + 1
       /\ Len(sent) <= idx - 1
       /\ bot \in {"crime", "recall"} =>
             /\ Len(sent) = idx - 1
             /\ \A i \in 1..Len(sent) : sent[i].id = queue[i]

\* A run that was left to finish attempted every candidate once (the camera
\* bot: once at most), each attempt on every webhook once.
AttemptedOnce ==
    \A k \in 1..Len(runs) :
       LET r == runs[k]
       IN bot \in {"crime", "recall", "camera"} /\ r.end = "done" =>
             /\ \A i \in 1..Len(r.sent) : Len(r.sent[i].res) = nhooks
             /\ Len(r.sent) <= r.total
             /\ bot # "camera" => Ids(r.sent) = DeliveryQueue(bot, r.new)

\* C31: a run of the crime, recall or camera bot over a finite candidate
\* list ends, after one notifier attempt per candidate on each webhook and
\* without a second attempt for an item that failed.
C31_RunEndsAfterOneAttemptEach ==
    /\ [](OnePassEach /\ AttemptedOnce)
    /\ (pc = "deliver") ~> (pc # "deliver")

\* A run of one of the three bots ended with a failed item in the middle of
\* its list, attempted once, and the items after it attempted too.
C31_Witness ==
    /\ bot \in {"crime", "recall", "camera"}
    /\ \E k \in 1..Len(runs) :
          LET r == runs[k]
          IN /\ r.end = "done"
             /\ Len(r.sent) >= 2
             /\ ~r.sent[1].rec
             /\ r.sent[2].rec
             /\ r.sent[1].id # r.sent[2].id

\* The identities announced more than once by a list of notifier invocations.
AnnouncedAgain(invocations) ==
    {invocations[i].id : i \in {j \in 1..Len(invocations) :
        /\ SomeSuccess(invocations[j])
        /\ \E h \in 1..(j - 1) : /\ invocations[h].id = invocations[j].id
                                  /\ SomeSuccess(invocations[h])}}

\* C32: a run of the crime, recall or coroner bot announces an identity at
\* most once, also when the listing of its fetch holds the identity at more
\* than one position.
C32_NoDuplicateInOneRun ==
    bot \in {"crime", "recall", "coroner"} =>
       /\ AnnouncedAgain(sent) = {}
       /\ \A k \in 1..Len(runs) : AnnouncedAgain(runs[k].sent) = {}

\* C33: in the crime, county news, local news and recall bots, a key that is
\* in the stored file is still in it after every later save, whatever the
\* save met when it read the file.
C33_SaveKeepsStoredKeys ==
    [][/\ bot \in {"crime", "gjnews", "local", "recall"}
       /\ file' # file
       => \A i \in 1..Len(file) : \E j \in 1..Len(file') : file'[j] = file[i]]_vars

\* C34: in the county news, local news and recall bots, when a save has
\* returned the link is in the in-memory set and in what a new process would
\* load from the file, and between two items of a run the in-memory set is
\* the set of the link parts of the keys in the file.
C34_CompositeKeyRoundTrip ==
    bot \in {"gjnews", "local", "recall"} /\ pc = "deliver" =>
       /\ seen = LoadSeenLinks(file)
       /\ sent # <<>> /\ sent[Len(sent)].io # "none" =>
             /\ sent[Len(sent)].id \in seen
             /\ sent[Len(sent)].id \in LoadSeenLinks(file)

\* The recall links of the listing: every link but the navigation ones.
RecallLinks == Range(listing[1]) \ {0}

\* What the runs before run k delivered.
DeliveredBefore(k) == UNION {Range(Ids(runs[j].sent)) : j \in 1..(k - 1)}

\* Every recall link of the listing is in the stored file.
Drained == RecallLinks \subseteq LoadSeenLinks(file)

\* While nothing fails, run k of the recall bot delivers the first
\* MAX_RECALLS_PER_RUN of the links no earlier run delivered, all of them
\* when there are fewer, and so nothing once there is none.
DrainStep ==
    bot = "recall" /\ faults = 0 =>
       \A k \in 1..Len(runs) :
          LET left == RecallLinks \ DeliveredBefore(k)
              ids == Ids(runs[k].sent)
          IN /\ Len(ids) <= MAX_RECALLS_PER_RUN
             /\ Range(ids) \subseteq left
             /\ Len(ids) = Min(MAX_RECALLS_PER_RUN, Cardinality(left))
             /\ Cardinality(Range(ids)) = Len(ids)
             /\ \A i \in 1..Len(ids) : runs[k].sent[i].rec
             /\ DeliveredBefore(k + 1) \subseteq LoadSeenLinks(file)

\* C35: over a fixed FDA listing whose pages are all reachable and with every
\* delivery succeeding, each run of the recall bot delivers at most
\* MAX_RECALLS_PER_RUN links, none of them recorded before; the repeated runs
\* come to record every recall link of the listing, and the runs after that
\* deliver nothing.  The runs are repeated by the bot's scheduler: the
\* behaviours meant are those in which the runs are made.
C35_RecallBacklogDrains ==
    /\ []DrainStep
    /\ <>(Len(runs) = MaxRuns) => <>(bot # "recall" \/ faults > 0 \/ Drained)

\* Two runs of the recall bot drained a listing longer than one run's cap.
C35_Witness ==
    /\ bot = "recall"
    /\ faults = 0
    /\ Cardinality(RecallLinks) > MAX_RECALLS_PER_RUN
    /\ Len(runs) = 2
    /\ Len(runs[1].sent) = MAX_RECALLS_PER_RUN
    /\ runs[2].sent # <<>>
    /\ Drained

\* C36: over a fixed listing and with every delivery succeeding, the repeated
\* runs of the crime-watch bot come to announce every valid item of the
\* listing, those beyond position MAX_ITEMS too: a run finds nothing new only
\* when every valid item is stored.
C36_CrimeBacklogDrains ==
    bot = "crime" /\ faults = 0 =>
       \A k \in 1..Len(runs) :
          runs[k].sent = <<>> =>
             Range(listing[1]) \ {0} \subseteq LoadSeenItems(file)

\* Where its source lists a link: position 1 is the newest entry.
Position(link) ==
    CHOOSE p \in 1..Len(listing[SourceOf(link)]) : listing[SourceOf(link)][p] = link

\* The order the claim describes, for the identities of a list of invocations:
\* a later-fetched source first, and within a source the older entry first.
LaterSourceFirstOldestFirst(ids) ==
    \A i, j \in 1..Len(ids) :
       i < j =>
          /\ SourceOf(ids[i]) >= SourceOf(ids[j])
          /\ SourceOf(ids[i]) = SourceOf(ids[j]) => Position(ids[i]) > Position(ids[j])

\* C37: in the county news and local news bots the lists of the sources are
\* concatenated in fetch order and the whole is reversed: the items of a
\* source are delivered oldest first, and every item of a source fetched
\* later is delivered before any item of a source fetched earlier.
C37_MultiSourceOrder ==
    bot \in {"gjnews", "local"} =>
       /\ LaterSourceFirstOldestFirst(Ids(sent))
       /\ \A k \in 1..Len(runs) :
             /\ LaterSourceFirstOldestFirst(Ids(runs[k].sent))
             /\ \A i, j \in 1..Len(runs[k].new) :
                   i < j => SourceOf(runs[k].new[i]) <= SourceOf(runs[k].new[j])
             /\ runs[k].end = "done" => Ids(runs[k].sent) = Reverse(runs[k].new)

\* A run delivered two items of one source after an item of a later source.
C37_Witness ==
    /\ bot \in {"gjnews", "local"}
    /\ \E k \in 1..Len(runs) :
          LET ids == Ids(runs[k].sent)
          IN /\ runs[k].end = "done"
             /\ Len(ids) = 3
             /\ SourceOf(ids[1]) > SourceOf(ids[2])
             /\ SourceOf(ids[2]) = SourceOf(ids[3])

\* A run begins in this step, and the number of its fetches that failed.
RunBegins ==
    /\ pc = "idle"
    /\ pc' = "deliver" \/ Len(runs') = Len(runs) + 1

MissedNow == IF pc' = "deliver" THEN missed' ELSE runs'[Len(runs')].missed

\* The items of a list that came from source s.
OfSource(items, s) == SelectSeq(items, LAMBDA e : SourceOf(e) = s)

\* C38: in the county news and local news bots a source whose fetch fails
\* yields an empty list and no other source is touched by it: the run has
\* what each other source's fetch returns, and delivers and records it.
C38_SourceIsolation ==
    /\ [][(bot \in {"gjnews", "local"} /\ RunBegins) =>
             \E down \in SUBSET (1..NumSources(bot)) :
                /\ Cardinality(down) = MissedNow
                /\ \A s \in 1..NumSources(bot) :
                      OfSource(FetchedNow, s) =
                         IF s \in down THEN <<>>
                         ELSE FetchNews(listing[s], seen,
                                        MaxArticlesPerSource(bot))]_vars
    /\ [](bot \in {"gjnews", "local"} =>
             \A k \in 1..Len(runs) :
                runs[k].end = "done" /\ runs[k].missed > 0 =>
                   /\ Ids(runs[k].sent) = Reverse(runs[k].new)
                   /\ \A i \in 1..Len(runs[k].sent) :
                         LET inv == runs[k].sent[i]
                         IN (\A w \in 1..Len(inv.res) : inv.res[w]) =>
                               inv.rec /\ inv.io # "none"
                   /\ faults = runs[k].missed =>
                         Range(runs[k].new) \subseteq LoadSeenLinks(file))

\* The first run lost one source that had entries and delivered and recorded
\* the entries of another.
C38_Witness ==
    /\ bot \in {"gjnews", "local"}
    /\ Len(runs) >= 1
    /\ runs[1].end = "done"
    /\ runs[1].missed = 1
    /\ runs[1].sent # <<>>
    /\ \E s \in 1..NumSources(bot) :
          listing[s] # <<>> /\ OfSource(runs[1].new, s) = <<>>
    /\ Range(runs[1].new) \subseteq LoadSeenLinks(file)

\* C39: a run of the recall bot with DRY_RUN set to "1" calls no webhook and
\* records nothing, in memory or in seen_items.json, and the run without
\* DRY_RUN that follows it delivers the items the dry run listed.
C39_DryRunChangesNothing ==
    /\ [](bot = "recall" /\ dry_run =>
             \A i \in 1..Len(sent) :
                sent[i].res = <<>> /\ ~sent[i].rec /\ sent[i].io = "none")
    /\ [][bot = "recall" /\ dry_run /\ dry_run' =>
             /\ file' = file
             /\ seen' = seen \/ pc = "off" \/ pc' = "off"]_vars
    /\ [](bot = "recall" =>
             \A k \in 1..Len(runs) :
                runs[k].dry =>
                   /\ runs[k].posted = 0
                   /\ \A i \in 1..Len(runs[k].sent) : runs[k].sent[i].res = <<>>
                   /\ (/\ k < Len(runs)
                       /\ ~runs[k + 1].dry
                       /\ runs[k].end = "done"
                       /\ runs[k].missed = 0
                       /\ runs[k + 1].missed = 0) =>
                          /\ runs[k + 1].new = runs[k].new
                          /\ runs[k + 1].end = "done" =>
                                Ids(runs[k + 1].sent) = Ids(runs[k].sent))

\* A dry run listed items and the run after it, without DRY_RUN, delivered
\* and recorded them.
C39_Witness ==
    /\ bot = "recall"
    /\ Len(runs) = 2
    /\ runs[1].dry
    /\ runs[1].end = "done"
    /\ Len(runs[1].sent) >= 2
    /\ ~runs[2].dry
    /\ runs[2].end = "done"
    /\ \A i \in 1..Len(runs[2].sent) : runs[2].sent[i].rec
    /\ Ids(runs[2].sent) = Ids(runs[1].sent)
    /\ Range(Ids(runs[2].sent)) \subseteq LoadSeenLinks(file)

\* The handler invocations that passed the guard.
Passed == {h \in 1..Len(view.handlers) : view.handlers[h].passed}

\* C40: of the clicks on the Skip and Make Article buttons of one ArticleView,
\* in any interleaving, at most one passes the processed guard; every click
\* after it gets the "already been processed" reply and nothing else, makes no
\* OpenAI call and sends no channel message, also when the generation of the
\* click that passed has failed.
C40_ProcessedAtMostOnce ==
    /\ Cardinality(Passed) <= 1
    /\ view.processed <=> Passed # {}
    /\ \A h \in 1..Len(view.handlers) :
          LET x == view.handlers[h]
          IN /\ (\E g \in 1..(h - 1) : view.handlers[g].passed) => ~x.passed
             /\ ~x.passed =>
                   /\ x.pc \in {"reply", "done", "raised"}
                   /\ x.generated = 0
                   /\ x.sent = 0
                   /\ x.said \in {"none", "already"}
                   /\ x.pc = "done" => x.said = "already"
             /\ x.generated <= 1
             /\ x.sent <= x.generated

\* The generation of the first click failed and was reported; two later
\* clicks, one on each button, were told the article was already processed.
C40_Witness ==
    /\ Len(view.handlers) = 3
    /\ view.handlers[1].button = "make_article"
    /\ view.handlers[1].said = "error"
    /\ view.handlers[1].sent = 0
    /\ view.handlers[2].said = "already"
    /\ view.handlers[3].said = "already"
    /\ view.handlers[2].button # view.handlers[3].button
====
